---- MODULE Spec2Model ----
(***************************************************************************)
(* Model of the p3-util crate, src/util/src/lib.rs: bit-arithmetic         *)
(* helpers on usize, the in-place bit-reversal permutation of a slice and  *)
(* transpose_vec.  Every function is pure (or mutates only the buffer it   *)
(* is handed), so the state is one call frame: the function called last,   *)
(* its arguments, and what it returned or the panic it raised.             *)
(***************************************************************************)
EXTENDS Integers, Sequences, FiniteSets, TLC

\* usize::BITS / u64::BITS, scaled down so that every usize can be enumerated.
BITS == 4
\* Longest buffer handed to reverse_slice_index_bits.
MaxLen == 8
\* Largest number of consecutive reverse_slice_index_bits calls on one buffer.
MaxCalls == 3
\* Largest outer / inner lengths of the Vec<Vec<T>> handed to transpose_vec.
MaxRows == 3
MaxCols == 2

\* Values of the (opaque) element type F / T.
Elems == {"a", "b"}

\* The values of usize.
USize == 0..(2^BITS - 1)

\* Whether arithmetic overflow checks are compiled in (debug) or not (release).
Builds == {"debug", "release"}

NoPanic == "none"
NotPow2 == "Not a power of two"
ShlOverflow == "attempt to shift left with overflow"
ShrOverflow == "attempt to shift right with overflow"
AssertNonEmpty == "assertion failed: !v.is_empty()"
UnwrapNone == "called Option::unwrap() on a None value"
IndexOutOfBounds == "index out of bounds"

VARIABLES
    build,   \* "debug" | "release"
    fn,      \* the function called last ("none" before the first call)
    x,       \* its first usize argument
    n,       \* its second usize argument (n, bit_len, n_bits)
    ret,     \* the value it returned (0 when it panicked)
    panic,   \* NoPanic, or the panic message
    vals,    \* the buffer reverse_slice_index_bits works on
    input,   \* the buffer's content before the last call
    orig,    \* the buffer's content before the first call
    calls,   \* number of reverse_slice_index_bits calls made on the buffer
    v        \* the rows handed to transpose_vec

vars == <<build, fn, x, n, ret, panic, vals, input, orig, calls, v>>

----------------------------------------------------------------------------
\* Bit-level primitives of the integer types (core::num).

\* Bit i of a.
Bit(a, i) == (a \div (2^i)) % 2

\* usize::reverse_bits: bit i of the result is bit BITS-1-i of a.
RECURSIVE RevSum(_, _)
RevSum(a, i) ==
    IF i = BITS THEN 0
    ELSE Bit(a, i) * 2^(BITS - 1 - i) + RevSum(a, i + 1)

ReverseBitsFull(a) == RevSum(a, 0)

\* usize::trailing_zeros: BITS for 0.
TrailingZeros(a) ==
    IF a = 0 THEN BITS
    ELSE CHOOSE k \in 0..(BITS - 1) :
            Bit(a, k) = 1 /\ \A j \in 0..(k - 1) : Bit(a, j) = 0

\* usize::leading_zeros: BITS for 0.
LeadingZeros(a) ==
    IF a = 0 THEN BITS
    ELSE CHOOSE k \in 0..(BITS - 1) :
            Bit(a, BITS - 1 - k) = 1
            /\ \A j \in 0..(k - 1) : Bit(a, BITS - 1 - j) = 0

\* usize::saturating_sub.
SaturatingSub(a, b) == IF a >= b THEN a - b ELSE 0

\* usize::wrapping_shr / overflowing_shr(..).0: the shift amount is taken
\* modulo the width of the type.
WrappingShr(a, s) == a \div (2^(s % BITS))

\* `a >> s`: panics with overflow checks when s >= BITS, wraps without them.
CheckedShr(b, a, s) ==
    IF s >= BITS /\ b = "debug"
    THEN [panic |-> ShrOverflow, val |-> 0]
    ELSE [panic |-> NoPanic, val |-> a \div (2^(s % BITS))]

\* `a << s`: panics with overflow checks when s >= BITS, wraps without them;
\* bits shifted out of the type are lost.
CheckedShl(b, a, s) ==
    IF s >= BITS /\ b = "debug"
    THEN [panic |-> ShlOverflow, val |-> 0]
    ELSE [panic |-> NoPanic, val |-> (a * 2^(s % BITS)) % (2^BITS)]

----------------------------------------------------------------------------
\* The functions of the crate.

\* Variant of log2_ceil_usize without the saturating decrement.
log2_ceil_usize_nosub(a) == BITS - LeadingZeros(a)

log2_ceil_usize(a) == BITS - LeadingZeros(SaturatingSub(a, 1))

log2_ceil_u64(a) == BITS - LeadingZeros(SaturatingSub(a, 1))

\* Variant of log2_strict_usize whose assertion only rejects a zero shift result.
log2_strict_usize_nonzero(a) ==
    LET res == TrailingZeros(a) IN
    IF WrappingShr(a, res) # 0
    THEN [panic |-> NoPanic, val |-> res]
    ELSE [panic |-> NotPow2, val |-> 0]

\* Variant of log2_strict_usize without the assertion.
log2_strict_usize_noassert(a) ==
    [panic |-> NoPanic, val |-> TrailingZeros(a)]

log2_strict_usize(a) ==
    LET res == TrailingZeros(a) IN
    IF WrappingShr(a, res) = 1
    THEN [panic |-> NoPanic, val |-> res]
    ELSE [panic |-> NotPow2, val |-> 0]

reverse_bits_len(a, bit_len) ==
    WrappingShr(ReverseBitsFull(a), BITS - bit_len)

reverse_bits(a, m) == reverse_bits_len(a, TrailingZeros(m))

\* bitmask::<usize>: (one << n_bits) - one
bitmask(b, n_bits) ==
    LET sh == CheckedShl(b, 1, n_bits) IN
    IF sh.panic # NoPanic THEN [panic |-> sh.panic, val |-> 0]
    ELSE [panic |-> NoPanic, val |-> sh.val - 1]

\* a & m on usize.
RECURSIVE AndSum(_, _, _)
AndSum(a, m, i) ==
    IF i = BITS THEN 0
    ELSE Bit(a, i) * Bit(m, i) * 2^i + AndSum(a, m, i + 1)

BitAnd(a, m) == AndSum(a, m, 0)

\* (x >> n, x & ((1 << n) - 1)), the tuple's fields evaluated left to right.
split_bits(b, a, m) ==
    LET hi == CheckedShr(b, a, m)
        sh == CheckedShl(b, 1, m)
    IN  IF hi.panic # NoPanic THEN [panic |-> hi.panic, val |-> 0]
        ELSE IF sh.panic # NoPanic THEN [panic |-> sh.panic, val |-> 0]
        ELSE [panic |-> NoPanic,
              val |-> <<hi.val, BitAnd(a, sh.val - 1)>>]

----------------------------------------------------------------------------
\* reverse_slice_index_bits.  Rust indices are 0-based, sequences 1-based.

\* Variant of swap that overwrites slot i and leaves slot j as it was.
SwapClobber(s, i, j) == [s EXCEPT ![i + 1] = s[j + 1]]

\* vals.swap(i, j)
Swap(s, i, j) == [s EXCEPT ![i + 1] = s[j + 1], ![j + 1] = s[i + 1]]

\* Variant of the swap condition that also swaps when i > j.
ShouldSwapNe(i, j) == i # j

\* if i < j
ShouldSwap(i, j) == i < j

\* for i in 0..n { ... }, from iteration i on.  vals.swap panics on an index
\* outside the slice, leaving the swaps made so far in place.
RECURSIVE SwapLoop(_, _, _, _)
SwapLoop(s, i, len, log_n) ==
    IF i >= len THEN [panic |-> NoPanic, vals |-> s]
    ELSE LET j == reverse_bits_len(i, log_n) IN
         IF ~ShouldSwap(i, j) THEN SwapLoop(s, i + 1, len, log_n)
         ELSE IF i >= len \/ j >= len THEN [panic |-> IndexOutOfBounds, vals |-> s]
         ELSE SwapLoop(Swap(s, i, j), i + 1, len, log_n)

reverse_slice_index_bits(s) ==
    LET len == Len(s) IN
    IF len = 0 THEN [panic |-> NoPanic, vals |-> s]
    ELSE LET l == log2_strict_usize(len) IN
         IF l.panic # NoPanic THEN [panic |-> l.panic, vals |-> s]
         ELSE SwapLoop(s, 0, len, l.val)

----------------------------------------------------------------------------
\* transpose_vec.

\* The c-th call (c = 1, 2, ...) of next() on row's into_iter(): None once
\* the row is exhausted.
IterNext(row, c) ==
    IF c <= Len(row) THEN [some |-> TRUE, val |-> row[c]]
    ELSE [some |-> FALSE, val |-> "none"]

\* Variant of transpose_vec that does not unwrap what next() returned.
transpose_vec_skip(rows) ==
    IF Len(rows) = 0 THEN [panic |-> AssertNonEmpty, val |-> <<>>]
    ELSE [panic |-> NoPanic,
          val |-> [c \in 1..Len(rows[1]) |->
                     [r \in 1..Len(rows) |-> IterNext(rows[r], c).val]]]

transpose_vec(rows) ==
    IF Len(rows) = 0 THEN [panic |-> AssertNonEmpty, val |-> <<>>]
    ELSE LET len == Len(rows[1]) IN
         IF \E c \in 1..len : \E r \in 1..Len(rows) :
                ~IterNext(rows[r], c).some
         THEN [panic |-> UnwrapNone, val |-> <<>>]
         ELSE [panic |-> NoPanic,
               val |-> [c \in 1..len |->
                          [r \in 1..Len(rows) |-> IterNext(rows[r], c).val]]]

----------------------------------------------------------------------------
\* Inputs.

Buffers == UNION {[1..k -> Elems] : k \in 0..MaxLen}

Rows == UNION {[1..k -> Elems] : k \in 0..MaxCols}

Matrices == UNION {[1..k -> Rows] : k \in 0..MaxRows}

\* Nothing has been called yet; the caller holds the arguments x and n.
InitFrame ==
    /\ build \in Builds
    /\ fn = "none"
    /\ x \in USize
    /\ n \in USize
    /\ ret = 0
    /\ panic = NoPanic

\* The call of f on the arguments held: it returned r or panicked with p.
Frame(f, r, p) ==
    /\ fn = "none"
    /\ fn' = f
    /\ ret' = r
    /\ panic' = p
    /\ UNCHANGED <<build, x, n>>

----------------------------------------------------------------------------
\* The scalar functions, each applied to the arguments drawn by InitBits.

InitBits ==
    /\ InitFrame
    /\ vals = <<>>
    /\ input = <<>>
    /\ orig = <<>>
    /\ calls = 0
    /\ v = <<>>

\* log2_ceil_usize(x)
Call_log2_ceil_usize ==
    /\ Frame("log2_ceil_usize", log2_ceil_usize(x), NoPanic)
    /\ UNCHANGED <<vals, input, orig, calls, v>>

\* log2_ceil_u64(x)
Call_log2_ceil_u64 ==
    /\ Frame("log2_ceil_u64", log2_ceil_u64(x), NoPanic)
    /\ UNCHANGED <<vals, input, orig, calls, v>>

\* log2_strict_usize(x)
Call_log2_strict_usize ==
    /\ LET r == log2_strict_usize(x) IN
        Frame("log2_strict_usize", r.val, r.panic)
    /\ UNCHANGED <<vals, input, orig, calls, v>>

\* reverse_bits(x, n)
Call_reverse_bits ==
    /\ Frame("reverse_bits", reverse_bits(x, n), NoPanic)
    /\ UNCHANGED <<vals, input, orig, calls, v>>

\* reverse_bits_len(x, n), for a bit length n within the width of usize.
Call_reverse_bits_len ==
    /\ n <= BITS
    /\ Frame("reverse_bits_len", reverse_bits_len(x, n), NoPanic)
    /\ UNCHANGED <<vals, input, orig, calls, v>>

\* bitmask::<usize>(n)
Call_bitmask ==
    /\ LET r == bitmask(build, n) IN
        Frame("bitmask", r.val, r.panic)
    /\ UNCHANGED <<vals, input, orig, calls, v>>

\* split_bits::<usize>(x, n)
Call_split_bits ==
    /\ LET r == split_bits(build, x, n) IN
        Frame("split_bits", r.val, r.panic)
    /\ UNCHANGED <<vals, input, orig, calls, v>>

NextBits ==
    \/ Call_log2_ceil_usize
    \/ Call_log2_ceil_u64
    \/ Call_log2_strict_usize
    \/ Call_reverse_bits
    \/ Call_reverse_bits_len
    \/ Call_bitmask
    \/ Call_split_bits

SpecBits == InitBits /\ [][NextBits]_vars

----------------------------------------------------------------------------
\* reverse_slice_index_bits, called repeatedly on one caller-owned buffer.

InitSlice ==
    /\ build \in Builds
    /\ fn = "none"
    /\ x = 0
    /\ n = 0
    /\ ret = 0
    /\ panic = NoPanic
    /\ vals \in Buffers
    /\ input = vals
    /\ orig = vals
    /\ calls = 0
    /\ v = <<>>

Call_reverse_slice_index_bits ==
    /\ calls < MaxCalls
    /\ LET r == reverse_slice_index_bits(vals) IN
        /\ panic' = r.panic
        /\ vals' = r.vals
    /\ fn' = "reverse_slice_index_bits"
    /\ input' = vals
    /\ calls' = calls + 1
    /\ UNCHANGED <<build, x, n, ret, orig, v>>

NextSlice == Call_reverse_slice_index_bits

SpecSlice == InitSlice /\ [][NextSlice]_vars

----------------------------------------------------------------------------
\* transpose_vec, which consumes its argument.

InitTranspose ==
    /\ build \in Builds
    /\ fn = "none"
    /\ x = 0
    /\ n = 0
    /\ ret = 0
    /\ panic = NoPanic
    /\ vals = <<>>
    /\ input = <<>>
    /\ orig = <<>>
    /\ calls = 0
    /\ v \in Matrices

Call_transpose_vec ==
    /\ LET r == transpose_vec(v) IN
        Frame("transpose_vec", r.val, r.panic)
    /\ UNCHANGED <<vals, input, orig, calls, v>>

NextTranspose == Call_transpose_vec

SpecTranspose == InitTranspose /\ [][NextTranspose]_vars

----------------------------------------------------------------------------
\* Vocabulary of the properties, independent of the code's bit tricks.

\* m is a power of two.
IsPow2(m) == \E k \in 0..(BITS - 1) : m = 2^k

\* The k-bit number whose bit b is bit k-1-b of i.
RECURSIVE BitRev(_, _)
BitRev(i, k) ==
    IF k = 0 THEN 0
    ELSE (i % 2) * 2^(k - 1) + BitRev(i \div 2, k - 1)

\* The exact base-2 logarithm of a power of two.
Log2(m) == CHOOSE k \in 0..(BITS - 1) : m = 2^k

----------------------------------------------------------------------------
\* Properties of reverse_slice_index_bits, under SpecSlice.

\* C1: on a buffer whose length is a power of two 2^k, the call returns and
\* leaves output[bit-reversal of i on k bits] = input[i] for every index i.
C1_BitReversalPermutation ==
    (fn = "reverse_slice_index_bits" /\ IsPow2(Len(input))) =>
        /\ panic = NoPanic
        /\ Len(vals) = Len(input)
        /\ \A i \in 0..(Len(input) - 1) :
              vals[BitRev(i, Log2(Len(input))) + 1] = input[i + 1]

\* A call on a buffer of the longest power-of-two length that moved elements.
C1_Witness ==
    /\ fn = "reverse_slice_index_bits"
    /\ Len(input) = 8
    /\ panic = NoPanic
    /\ vals # input
    /\ vals[5] = input[2]

\* C2: two calls in a row on a buffer of power-of-two length leave every
\* index holding the element it held before the first call.
C2_Involution ==
    (calls = 2 /\ IsPow2(Len(orig))) => (panic = NoPanic /\ vals = orig)

\* Two calls, the first of which changed the buffer.
C2_Witness ==
    /\ calls = 2
    /\ Len(orig) = 8
    /\ input # orig
    /\ vals = orig

\* C3: a call on an empty buffer returns and leaves it alone; a call on a
\* buffer whose length is neither 0 nor a power of two panics with "Not a
\* power of two" and the buffer holds what it held before the call.
C3_LengthContract ==
    fn = "reverse_slice_index_bits" =>
        /\ Len(input) = 0 => (panic = NoPanic /\ vals = input)
        /\ (Len(input) # 0 /\ ~IsPow2(Len(input))) =>
              (panic = NotPow2 /\ vals = input)

\* A panicking call on a buffer of length 6 whose elements are not all equal.
C3_Witness ==
    /\ fn = "reverse_slice_index_bits"
    /\ Len(input) = 6
    /\ input[2] # input[3]
    /\ panic = NotPow2
    /\ vals = input

----------------------------------------------------------------------------
\* Properties of the scalar functions, under SpecBits.

\* C4: for every x and every bit_len in 0..BITS, reverse_bits_len(x, bit_len)
\* has bit i equal to bit bit_len-1-i of x for i < bit_len and every bit at
\* or above bit_len zero; so reverse_bits_len(x, 0) = 0.
C4_ReverseBitsLen ==
    fn = "reverse_bits_len" =>
        /\ panic = NoPanic
        /\ \A i \in 0..(BITS - 1) :
              Bit(ret, i) = IF i < n THEN Bit(x, n - 1 - i) ELSE 0

\* C5: bitmask(k) does not fail for 0 <= k <= BITS, returns 2^k - 1 for
\* k < BITS and the all-ones value for k = BITS.
C5_Bitmask ==
    (fn = "bitmask" /\ n <= BITS) =>
        /\ panic = NoPanic
        /\ ret = 2^n - 1

\* C6: for every x and every n in 0..BITS, split_bits(x, n) does not fail
\* and returns (x >> n, low n bits of x), which recombine to x.
C6_SplitBits ==
    (fn = "split_bits" /\ n <= BITS) =>
        /\ panic = NoPanic
        /\ ret = <<x \div 2^n, x % 2^n>>
        /\ ret[1] * 2^n + ret[2] = x

\* C7: reverse_bits(x, n) returns reverse_bits_len(x, log2(n)) when n is a
\* power of two and fails for every n that is not, 0 included.
C7_ReverseBits ==
    fn = "reverse_bits" =>
        IF IsPow2(n)
        THEN panic = NoPanic /\ ret = reverse_bits_len(x, Log2(n))
        ELSE panic # NoPanic

\* C8: log2_strict_usize(n) returns m with 2^m = n when n is a power of
\* two, and panics with "Not a power of two" for every other n, 0 included.
C8_Log2Strict ==
    fn = "log2_strict_usize" =>
        IF IsPow2(x)
        THEN panic = NoPanic /\ 2^ret = x
        ELSE panic = NotPow2

\* The returning call log2_strict_usize(8) = 3.
C8_Witness ==
    /\ fn = "log2_strict_usize"
    /\ x = 8
    /\ panic = NoPanic
    /\ ret = 3

\* C9: log2_ceil_usize(n) and log2_ceil_u64(n) return, for every n, the
\* smallest m with 2^m >= n: 0 for n <= 1, else 2^m >= n and 2^(m-1) < n.
C9_Log2Ceil ==
    fn \in {"log2_ceil_usize", "log2_ceil_u64"} =>
        /\ panic = NoPanic
        /\ x <= 1 => ret = 0
        /\ x > 1 => (2^ret >= x /\ 2^(ret - 1) < x)

\* The call on the largest usize.
C9_Witness ==
    /\ fn = "log2_ceil_usize"
    /\ x = 2^BITS - 1
    /\ ret = BITS

----------------------------------------------------------------------------
\* Properties of transpose_vec, under SpecTranspose.

\* Row r of m is as long as the first row.
SameLen(m, r) == Len(m[r]) = Len(m[1])

\* res is the transpose of the first Len(m[1]) columns of m.
IsTranspose(res, m) ==
    /\ Len(res) = Len(m[1])
    /\ \A c \in 1..Len(m[1]) :
          /\ Len(res[c]) = Len(m)
          /\ \A r \in 1..Len(m) : res[c][r] = m[r][c]

\* C10 as stated: equal rows are transposed, an empty outer sequence fails,
\* and rows of unequal lengths (shorter or longer than the first) panic.
C10_Original ==
    fn = "transpose_vec" =>
        /\ Len(v) = 0 => panic # NoPanic
        /\ (Len(v) > 0 /\ \A r \in 1..Len(v) : SameLen(v, r)) =>
              (panic = NoPanic /\ IsTranspose(ret, v))
        /\ (Len(v) > 0 /\ \E r \in 1..Len(v) : ~SameLen(v, r)) =>
              panic # NoPanic

\* C10 amended: an empty outer sequence fails; a row shorter than the first
\* row panics; otherwise the call returns the transpose of the first
\* Len(v[0]) columns, dropping what longer rows hold beyond them.
C10_Transpose ==
    fn = "transpose_vec" =>
        /\ Len(v) = 0 => panic = AssertNonEmpty
        /\ (Len(v) > 0 /\ \E r \in 1..Len(v) : Len(v[r]) < Len(v[1])) =>
              panic = UnwrapNone
        /\ (Len(v) > 0 /\ \A r \in 1..Len(v) : Len(v[r]) >= Len(v[1])) =>
              (panic = NoPanic /\ IsTranspose(ret, v))

\* A call that returned although one row is longer than the first, and so
\* lost an element.
C10_Witness ==
    /\ fn = "transpose_vec"
    /\ Len(v) = 2
    /\ Len(v[1]) = 1
    /\ Len(v[2]) = 2
    /\ panic = NoPanic
    /\ ret = <<<<v[1][1], v[2][1]>>>>

====
